---- MODULE Spec2Model ----
(***************************************************************************)
(* A model of tools/cache/shared_informer.go: the sharedIndexInformer, its *)
(* sharedProcessor and the processorListener pipeline (add -> pop -> run). *)
(*                                                                         *)
(* Goroutines are modelled by program counters:                            *)
(*   runPc    sharedIndexInformer.Run                                      *)
(*   procPc   sharedProcessor.run                                          *)
(*   hdPc     the controller's process loop, inside HandleDeltas           *)
(*   resyncPc the reflector's resync goroutine, inside shouldResync        *)
(*   regPc    a caller of AddEventHandlerWithResyncPeriod                  *)
(*   popPc[l], lrunPc[l]   processorListener.pop / processorListener.run   *)
(* An unbuffered channel send is a joint step of sender and receiver.      *)
(* Durations and times are in milliseconds.                                *)
(***************************************************************************)
EXTENDS Integers, Sequences, FiniteSets, TLC

\* ---------------------------------------------------------------- bounds
MaxListeners == 2
NumKeys == 1
MaxDeltas == 2
MaxBatch == 2
MaxTicks == 1
\* Deltas in the specification of the listener pipeline alone.
MaxPumpDeltas == 3
MaxSyncFns == 2

\* ------------------------------------------------------ program constants
minimumResyncPeriod == 1000
\* The period run gives to wait.Until, 1*time.Minute, in milliseconds.
UntilPeriod == 60000
\* The longest pause of the retry configuration's exponential backoff, in
\* milliseconds.
RetryBackoffCap == 1000

Listeners == 1..MaxListeners
Keys == 1..NumKeys
TickStep == minimumResyncPeriod

\* The resync periods handlers ask for, and the informer's default period.
RequestedPeriods == {minimumResyncPeriod}
DefaultPeriods == {minimumResyncPeriod}
\* A wider choice, for the specification of the resync arithmetic alone.
WideRequestedPeriods == {0, 400, 800, minimumResyncPeriod, 1500, 2000, 3000}
\* The same with a negative period, which time.Duration allows.
SignedRequestedPeriods == WideRequestedPeriods \cup {-500}
\* The index names AddIndexers may be called with.
IndexNames == {"byLabel", "namespace"}
WideDefaultPeriods == {0, 600, minimumResyncPeriod, 2000}
\* The sync functions WaitForCacheSync may be given.
SyncFns == 1..MaxSyncFns

VARIABLES
    \* sharedIndexInformer
    started, stopped, resyncCheckPeriod, indexer, startedLock, blockDeltas,
    \* sharedIndexInformer.Run and its stop channels
    runPc, stopCh, processorStopCh,
    \* sharedProcessor
    listeners, syncingListeners, listenersStarted, readers, procPc,
    \* processorListener fields
    requestedResyncPeriod, resyncPeriod, nextResync, addChClosed, nextChClosed,
    pendingNotifications,
    \* processorListener.pop locals and position
    popPc, notification, nextCh,
    \* processorListener.run position
    lrunPc,
    \* HandleDeltas / distribute in progress
    hdPc, hdBatch, distNote, distTargets,
    \* sharedProcessor.shouldResync in progress, and its last return value
    resyncPc, resyncNeeded,
    \* AddEventHandlerWithResyncPeriod in progress
    regPc, regItems,
    \* clock.Now()
    now,
    \* history: what add() handed to each pump, what each handler was called
    \* with, the deltas HandleDeltas applied, and each listener's registration
    accepted, delivered, deltaLog, regAt, snapshot, askedPeriod,
    \* history: whether shouldResync was ever called, the listeners its last call
    \* found due, and those registered since
    resyncCalled, markedDue, registeredSince,
    \* the indexer's Indexers (their names), and the last AddIndexers call
    indexers, addIndexersErr,
    \* history: whether a registration was refused because the informer had stopped
    refused,
    \* what the last HandleDeltas call returned
    hdErr,
    \* history: how many times each listener's run and pop were started
    pumpStarts,
    \* WaitForCacheSync: its position, the number of sync functions it was given,
    \* what they returned in the current poll, and its return value
    wfcPc, wfcFns, polled, wfcResult,
    \* what each sync function returns now, and the stop channel given to
    \* WaitForCacheSync
    synced, waitStop,
    \* history: the places in delivered of the notifications on which each
    \* listener's handler panicked
    panicked,
    \* history: how long run paused after the last panic of each listener's
    \* handler (milliseconds; 0: no pause yet)
    pausedFor

informerVars == <<started, stopped, resyncCheckPeriod, indexer, startedLock, blockDeltas>>
lifecycleVars == <<runPc, stopCh, processorStopCh>>
processorVars == <<listeners, syncingListeners, listenersStarted, readers, procPc>>
resyncVars == <<requestedResyncPeriod, resyncPeriod, nextResync>>
chanVars == <<addChClosed, nextChClosed>>
pumpVars == <<pendingNotifications, notification, nextCh, accepted>>
goVars == <<popPc, lrunPc>>
hdVars == <<hdPc, hdBatch, distNote, distTargets, deltaLog>>
shouldResyncVars == <<resyncPc, resyncNeeded>>
regVars == <<regPc, regItems, regAt, snapshot>>
dueVars == <<resyncCalled, markedDue, registeredSince, askedPeriod>>

waitVars == <<wfcPc, wfcFns, polled, wfcResult, synced, waitStop>>

apiVars == <<indexers, addIndexersErr, refused, hdErr, pumpStarts, waitVars, panicked, pausedFor>>

vars == <<informerVars, lifecycleVars, processorVars, resyncVars, chanVars, pumpVars,
          goVars, hdVars, shouldResyncVars, regVars, dueVars, now, delivered, apiVars>>

\* ------------------------------------------------------------ data model
\* An object is a key and a resource version; rv 0 is "absent".
Obj(k, rv) == [key |-> k, rv |-> rv]
NoObj == Obj(0, 0)

\* updateNotification, addNotification, deleteNotification; Nil is Go's nil.
Nil == [kind |-> "nil", oldObj |-> NoObj, newObj |-> NoObj]
addNotification(new) == [kind |-> "add", oldObj |-> NoObj, newObj |-> new]
updateNotification(old, new) == [kind |-> "update", oldObj |-> old, newObj |-> new]
deleteNotification(old) == [kind |-> "delete", oldObj |-> old, newObj |-> NoObj]

DeltaTypes == {"Added", "Updated", "Deleted", "Sync"}

Range(s) == {s[i] : i \in 1..Len(s)}

\* The object a notification is about (the delta's object).
Subject(n) == IF n.kind = "delete" THEN n.oldObj ELSE n.newObj

\* Faulty variant: a listing that misses the store's objects.
ListNothing == {}

\* indexer.List(): the objects in the store.
List == {Obj(k, indexer[k]) : k \in {j \in Keys : indexer[j] # 0}}

\* The orders in which a range over a Go map may visit a set of objects.
Orders(S) == {s \in [1..Cardinality(S) -> S] : \A i, j \in 1..Cardinality(S) : s[i] = s[j] => i = j}

\* ------------------------------------------------- determineResyncPeriod
\* Faulty variant: a coercion that keeps a positive period although the
\* informer does not resync.
determineResyncPeriodKeepsDesired(desired, check) ==
    IF desired = 0 THEN desired
    ELSE IF check # 0 /\ desired < check THEN check
    ELSE desired

\* determineResyncPeriod(desired, check)
determineResyncPeriod(desired, check) ==
    IF desired = 0 THEN desired
    ELSE IF check = 0 THEN 0
    ELSE IF desired < check THEN check
    ELSE desired

\* Faulty variant: a registration that takes the period as the caller gave it.
AtLeastMinimumSkipped(r) == r

\* The period AddEventHandlerWithResyncPeriod goes on with: a positive period
\* below minimumResyncPeriod is raised to it.
AtLeastMinimum(r) ==
    IF r > 0 /\ r < minimumResyncPeriod THEN minimumResyncPeriod ELSE r

\* clock.Now(): a reading of the clock is the last reading or later.
ClockNow == {t \in {now, now + TickStep} : t <= MaxTicks * TickStep}

\* sync.RWMutex: a blocked Lock() keeps new readers out.
WriterWaiting == resyncPc = "waiting"
CanRLock == ~WriterWaiting
CanLock == readers = {} /\ ~WriterWaiting

\* HandleDeltas' return value: nil, or the error of the indexer call (op) that
\* failed, with the delta it failed on and the deltas of the batch after it.
NoError == [op |-> "none", failed |-> <<>>, dropped |-> <<>>]

\* The record of the last AddIndexers call: its argument and its error.
NoAddIndexers == [arg |-> {}, err |-> "none"]

\* Before any call of WaitForCacheSync: nothing is synced, stop is open.
NoWait ==
    /\ wfcPc = "idle" /\ wfcFns = 0 /\ polled = <<>> /\ wfcResult = "none"
    /\ synced = [i \in SyncFns |-> FALSE]
    /\ waitStop = FALSE

\* NewSharedIndexInformer(lw, objType, defaultEventHandlerResyncPeriod, indexers)
NewSharedIndexInformer(defaultPeriods) ==
    /\ started = FALSE /\ stopped = FALSE
    /\ resyncCheckPeriod \in defaultPeriods
    /\ indexer = [k \in Keys |-> 0]
    /\ startedLock = "free" /\ blockDeltas = "free"
    /\ runPc = "new" /\ stopCh = FALSE /\ processorStopCh = FALSE
    /\ listeners = <<>> /\ syncingListeners = <<>> /\ listenersStarted = FALSE
    /\ readers = {} /\ procPc = "idle"
    /\ requestedResyncPeriod = [l \in Listeners |-> 0]
    /\ resyncPeriod = [l \in Listeners |-> 0]
    /\ nextResync = [l \in Listeners |-> 0]
    /\ addChClosed = [l \in Listeners |-> FALSE]
    /\ nextChClosed = [l \in Listeners |-> FALSE]
    /\ pendingNotifications = [l \in Listeners |-> <<>>]
    /\ popPc = [l \in Listeners |-> "none"]
    /\ notification = [l \in Listeners |-> Nil]
    /\ nextCh = [l \in Listeners |-> FALSE]
    /\ lrunPc = [l \in Listeners |-> "none"]
    /\ hdPc = "idle" /\ hdBatch = <<>> /\ distNote = Nil /\ distTargets = <<>>
    /\ resyncPc = "idle" /\ resyncNeeded = FALSE
    /\ regPc = "idle" /\ regItems = <<>>
    /\ now = 0
    /\ accepted = [l \in Listeners |-> <<>>]
    /\ delivered = [l \in Listeners |-> <<>>]
    /\ deltaLog = <<>>
    /\ regAt = [l \in Listeners |-> 0]
    /\ snapshot = [l \in Listeners |-> {}]
    /\ askedPeriod = [l \in Listeners |-> 0]
    /\ indexers = {} /\ addIndexersErr = NoAddIndexers
    /\ refused = FALSE
    /\ hdErr = NoError
    /\ pumpStarts = [l \in Listeners |-> 0]
    /\ NoWait
    /\ panicked = [l \in Listeners |-> {}]
    /\ pausedFor = [l \in Listeners |-> 0]
    /\ resyncCalled = FALSE /\ markedDue = {} /\ registeredSince = {}

Init == NewSharedIndexInformer(DefaultPeriods)


\* ------------------------------------------------- processorListener.pop
\* Faulty variants of the buffer, used to test the sensitivity of the
\* properties: one that reads the newest element, one that loses what it is
\* given while it holds something.
ReadOneNewest(buf) == [item |-> buf[Len(buf)], rest |-> SubSeq(buf, 1, Len(buf) - 1)]
WriteOneLossy(buf, n) == IF buf = <<>> THEN <<n>> ELSE buf

\* buffer.RingGrowing: ReadOne takes the oldest element, WriteOne appends.
ReadOne(buf) == [item |-> Head(buf), rest |-> Tail(buf)]
WriteOne(buf, n) == Append(buf, n)

\* Faulty variant: a pop that receives from addCh only while it holds no
\* notification, that is, a pump without the pending buffer.
PopReadyUnbuffered(l) == popPc[l] = "select" /\ notification[l] = Nil

\* pop waits in its select, where the receive from addCh is always enabled.
PopReady(l) == popPc[l] = "select"

\* Faulty variant: a pop that puts every arrival into the buffer, also when
\* it holds no notification.
PopAcceptAlwaysBuffers(l, n) ==
    /\ accepted' = [accepted EXCEPT ![l] = Append(@, n)]
    /\ pendingNotifications' = [pendingNotifications EXCEPT ![l] = WriteOne(@, n)]
    /\ UNCHANGED <<notification, nextCh>>

\* case notificationToAdd, ok := <-p.addCh with ok: the receiving half of add().
PopAccept(l, n) ==
    /\ accepted' = [accepted EXCEPT ![l] = Append(@, n)]
    /\ IF notification[l] = Nil
       THEN /\ notification' = [notification EXCEPT ![l] = n]
            /\ nextCh' = [nextCh EXCEPT ![l] = TRUE]
            /\ UNCHANGED pendingNotifications
       ELSE /\ pendingNotifications' = [pendingNotifications EXCEPT ![l] = WriteOne(@, n)]
            /\ UNCHANGED <<notification, nextCh>>

\* case nextCh <- notification, received by run's range over p.nextCh, which
\* calls the handler with it.
PopForward(l) ==
    /\ popPc[l] = "select" /\ nextCh[l] /\ ~nextChClosed[l]
    /\ lrunPc[l] = "recv"
    /\ delivered' = [delivered EXCEPT ![l] = Append(@, notification[l])]
    /\ lrunPc' = [lrunPc EXCEPT ![l] = "handling"]
    /\ IF pendingNotifications[l] # <<>>
       THEN /\ notification' = [notification EXCEPT ![l] = ReadOne(pendingNotifications[l]).item]
            /\ pendingNotifications' = [pendingNotifications EXCEPT ![l] = ReadOne(@).rest]
            /\ UNCHANGED nextCh
       ELSE /\ notification' = [notification EXCEPT ![l] = Nil]
            /\ nextCh' = [nextCh EXCEPT ![l] = FALSE]
            /\ UNCHANGED pendingNotifications
    /\ UNCHANGED <<informerVars, lifecycleVars, processorVars, resyncVars, chanVars,
                   accepted, popPc, hdVars, shouldResyncVars, regVars, dueVars, now>>
    /\ UNCHANGED apiVars

\* Faulty variant: a pop that returns without closing nextCh.
PopExitNoClose(l) ==
    /\ popPc[l] = "select" /\ addChClosed[l]
    /\ popPc' = [popPc EXCEPT ![l] = "exited"]
    /\ UNCHANGED <<informerVars, lifecycleVars, processorVars, resyncVars, chanVars,
                   pumpVars, lrunPc, hdVars, shouldResyncVars, regVars, dueVars, now, delivered>>
    /\ UNCHANGED apiVars

\* case _, ok := <-p.addCh with !ok: return, and the deferred close(p.nextCh).
PopExit(l) ==
    /\ popPc[l] = "select" /\ addChClosed[l]
    /\ popPc' = [popPc EXCEPT ![l] = "exited"]
    /\ nextChClosed' = [nextChClosed EXCEPT ![l] = TRUE]
    /\ UNCHANGED <<informerVars, lifecycleVars, processorVars, resyncVars, addChClosed,
                   pumpVars, lrunPc, hdVars, shouldResyncVars, regVars, dueVars, now, delivered>>
    /\ UNCHANGED apiVars

\* ------------------------------------------------- processorListener.run
\* The handler callback returns.
HandlerReturn(l) ==
    /\ lrunPc[l] = "handling"
    /\ lrunPc' = [lrunPc EXCEPT ![l] = "recv"]
    /\ UNCHANGED <<informerVars, lifecycleVars, processorVars, resyncVars, chanVars,
                   pumpVars, popPc, hdVars, shouldResyncVars, regVars, dueVars, now, delivered>>
    /\ UNCHANGED apiVars

\* What becomes of a panic of the handler: wait.Until runs the function under
\* a deferred utilruntime.HandleCrash, which logs the panic and then either
\* swallows it (ReallyCrash set to false) or raises it again (ReallyCrash
\* true), which ends the process.
HandleCrashOutcomes == {"recovered", "raised"}

\* The handler callback panics.  If the panic is swallowed, wait.Until calls
\* the function again after its period, and range p.nextCh goes on with the
\* next notification.
HandlerPanic(l) ==
    /\ lrunPc[l] = "handling"
    /\ panicked' = [panicked EXCEPT ![l] = @ \cup {Len(delivered[l])}]
    /\ \E out \in HandleCrashOutcomes :
          IF out = "recovered"
          THEN /\ lrunPc' = [lrunPc EXCEPT ![l] = "recv"]
               /\ pausedFor' = [pausedFor EXCEPT ![l] = UntilPeriod]
          ELSE /\ lrunPc' = [lrunPc EXCEPT ![l] = "crashed"]
               /\ UNCHANGED pausedFor
    /\ UNCHANGED <<informerVars, lifecycleVars, processorVars, resyncVars, chanVars,
                   pumpVars, popPc, hdVars, shouldResyncVars, regVars, dueVars, now, delivered>>
    /\ UNCHANGED <<indexers, addIndexersErr, refused, hdErr, pumpStarts, waitVars>>

\* A raised panic has ended the process.
Crashed == \E l \in Listeners : lrunPc[l] = "crashed"

\* range p.nextCh ends on the closed channel; run returns.
ListenerRunExit(l) ==
    /\ lrunPc[l] = "recv" /\ nextChClosed[l]
    /\ lrunPc' = [lrunPc EXCEPT ![l] = "exited"]
    /\ UNCHANGED <<informerVars, lifecycleVars, processorVars, resyncVars, chanVars,
                   pumpVars, popPc, hdVars, shouldResyncVars, regVars, dueVars, now, delivered>>
    /\ UNCHANGED apiVars

\* ------------------------------------------------------- sharedProcessor
\* p.wg.Start(listener.run); p.wg.Start(listener.pop) for the listeners in S.
StartPumps(S) ==
    /\ popPc' = [l \in Listeners |-> IF l \in S THEN "select" ELSE popPc[l]]
    /\ lrunPc' = [l \in Listeners |-> IF l \in S THEN "recv" ELSE lrunPc[l]]
    /\ pumpStarts' = [l \in Listeners |-> IF l \in S THEN pumpStarts[l] + 1
                                                     ELSE pumpStarts[l]]

\* sharedProcessor.run, first part: start every listener's pumps.
ProcessorRunStart ==
    /\ procPc = "start" /\ CanRLock
    /\ StartPumps(Range(listeners))
    /\ listenersStarted' = TRUE
    /\ procPc' = "waitStop"
    /\ UNCHANGED <<informerVars, lifecycleVars, listeners, syncingListeners, readers,
                   resyncVars, chanVars, pumpVars, hdVars, shouldResyncVars, regVars,
                   dueVars, now, delivered>>
    /\ UNCHANGED <<indexers, addIndexersErr, refused, hdErr, waitVars, panicked, pausedFor>>

\* sharedProcessor.run after <-stopCh: close every addCh, then wait (holding
\* the read lock) for the pumps.
ProcessorRunClose ==
    /\ procPc = "waitStop" /\ processorStopCh /\ CanRLock
    /\ readers' = readers \cup {"proc"}
    /\ addChClosed' = [l \in Listeners |-> addChClosed[l] \/ l \in Range(listeners)]
    /\ procPc' = "wgWait"
    /\ UNCHANGED <<informerVars, lifecycleVars, listeners, syncingListeners,
                   listenersStarted, resyncVars, nextChClosed, pumpVars, goVars, hdVars,
                   shouldResyncVars, regVars, dueVars, now, delivered>>
    /\ UNCHANGED apiVars

\* p.wg.Wait() returns when every started pop and run has returned.
ProcessorRunDone ==
    /\ procPc = "wgWait"
    /\ \A l \in Listeners : popPc[l] \in {"none", "exited"} /\ lrunPc[l] \in {"none", "exited"}
    /\ readers' = readers \ {"proc"}
    /\ procPc' = "done"
    /\ UNCHANGED <<informerVars, lifecycleVars, listeners, syncingListeners,
                   listenersStarted, resyncVars, chanVars, pumpVars, goVars, hdVars,
                   shouldResyncVars, regVars, dueVars, now, delivered>>
    /\ UNCHANGED apiVars

\* Faulty variant: a listener that does not look at its period.
ListenerShouldResyncAnyPeriod(l, t) == t >= nextResync[l]

\* processorListener.shouldResync(t)
ListenerShouldResync(l, t) == resyncPeriod[l] # 0 /\ t >= nextResync[l]

\* The listeners sharedProcessor.shouldResync finds due at time t, in order.
Due(t) == SelectSeq(listeners, LAMBDA l : ListenerShouldResync(l, t))

\* The reflector's resync timer fires and shouldResync asks for the write lock.
ShouldResyncCall ==
    /\ runPc = "controller" /\ ~stopCh /\ resyncCheckPeriod > 0
    /\ resyncPc = "idle"
    /\ resyncPc' = "waiting"
    /\ UNCHANGED <<informerVars, lifecycleVars, processorVars, resyncVars, chanVars,
                   pumpVars, goVars, hdVars, resyncNeeded, regVars, dueVars, now, delivered>>
    /\ UNCHANGED apiVars

\* sharedProcessor.shouldResync under the write lock.
ShouldResync ==
    /\ resyncPc = "waiting" /\ readers = {}
    /\ \E t \in ClockNow :
          /\ now' = t
          /\ syncingListeners' = Due(t)
          /\ nextResync' = [l \in Listeners |->
                              IF l \in Range(Due(t))
                              THEN t + resyncPeriod[l] ELSE nextResync[l]]
          /\ resyncNeeded' = (Due(t) # <<>>)
          /\ markedDue' = Range(Due(t))
    /\ resyncCalled' = TRUE
    /\ registeredSince' = {}
    /\ UNCHANGED askedPeriod
    /\ resyncPc' = "idle"
    /\ UNCHANGED <<informerVars, lifecycleVars, listeners, listenersStarted, readers,
                   procPc, requestedResyncPeriod, resyncPeriod, chanVars, pumpVars,
                   goVars, hdVars, regVars, delivered>>
    /\ UNCHANGED apiVars


\* Faulty variant: a resyncCheckPeriodChanged that leaves the listeners alone.
resyncCheckPeriodChangedNobody(check) == resyncPeriod

\* sharedProcessor.resyncCheckPeriodChanged: every listener's effective period
\* is coerced anew against the new check period.
resyncCheckPeriodChanged(check) ==
    [l \in Listeners |->
        IF l \in Range(listeners)
        THEN determineResyncPeriod(requestedResyncPeriod[l], check)
        ELSE resyncPeriod[l]]

\* Faulty variant: an addListener that starts the pumps in any case.
StartOnAddAlways == TRUE

\* if p.listenersStarted: addListener starts the pumps itself.
StartOnAdd == listenersStarted

\* sharedProcessor.addListener: addListenerLocked, and the pumps if the
\* processor is already running them.
addListener(l) ==
    /\ listeners' = Append(listeners, l)
    /\ syncingListeners' = Append(syncingListeners, l)
    /\ IF StartOnAdd THEN StartPumps({l}) ELSE UNCHANGED <<goVars, pumpStarts>>
    /\ regAt' = [regAt EXCEPT ![l] = Len(deltaLog)]
    /\ snapshot' = [snapshot EXCEPT ![l] =
                        {Obj(k, indexer[k]) : k \in {j \in Keys : indexer[j] # 0}}]
    /\ registeredSince' = registeredSince \cup {l}
    /\ UNCHANGED <<resyncCalled, markedDue>>

\* ------------------------------------------- sharedIndexInformer lifecycle
\* Faulty variant: a blockDeltas that excludes nobody.
BlockDeltasNeverHeld == TRUE

\* blockDeltas can be locked.
BlockDeltasFree == blockDeltas = "free"

\* Run up to the start of the controller: started is set under startedLock
\* and the goroutine of sharedProcessor.run is spawned.
RunStart ==
    /\ runPc = "new" /\ startedLock = "free"
    /\ started' = TRUE
    /\ runPc' = "controller"
    /\ procPc' = "start"
    /\ UNCHANGED <<stopped, resyncCheckPeriod, indexer, startedLock, blockDeltas, stopCh,
                   processorStopCh, listeners, syncingListeners, listenersStarted, readers,
                   resyncVars, chanVars, pumpVars, goVars, hdVars, shouldResyncVars,
                   regVars, dueVars, now, delivered>>
    /\ UNCHANGED apiVars

\* The caller of Run closes the stop channel.
CloseStopCh ==
    /\ runPc = "controller" /\ ~stopCh
    /\ stopCh' = TRUE
    /\ UNCHANGED <<informerVars, runPc, processorStopCh, processorVars, resyncVars,
                   chanVars, pumpVars, goVars, hdVars, shouldResyncVars, regVars, dueVars, now,
                   delivered>>
    /\ UNCHANGED apiVars

\* s.controller.Run(stopCh) returns: the process loop and the reflector ended.
ControllerReturn ==
    /\ runPc = "controller" /\ stopCh
    /\ hdPc = "idle" /\ resyncPc = "idle"
    /\ runPc' = "setStopped"
    /\ UNCHANGED <<informerVars, stopCh, processorStopCh, processorVars, resyncVars,
                   chanVars, pumpVars, goVars, hdVars, shouldResyncVars, regVars, dueVars, now,
                   delivered>>
    /\ UNCHANGED apiVars

\* Faulty variant: a Run whose deferred calls close processorStopCh without
\* stopped having been set.
RunCloseNotStopped ==
    /\ runPc = "setStopped" /\ startedLock = "free"
    /\ processorStopCh' = TRUE
    /\ runPc' = "wgWait"
    /\ UNCHANGED <<started, stopped, resyncCheckPeriod, indexer, startedLock, blockDeltas,
                   stopCh, processorVars, resyncVars, chanVars, pumpVars, goVars,
                   hdVars, shouldResyncVars, regVars, dueVars, now, delivered>>
    /\ UNCHANGED apiVars

\* Run's deferred calls, up to wg.Wait(): stopped = true under startedLock,
\* then close(processorStopCh).
RunSetStopped ==
    /\ runPc = "setStopped" /\ startedLock = "free"
    /\ stopped' = TRUE
    /\ processorStopCh' = TRUE
    /\ runPc' = "wgWait"
    /\ UNCHANGED <<started, resyncCheckPeriod, indexer, startedLock, blockDeltas, stopCh,
                   processorVars, resyncVars, chanVars, pumpVars, goVars,
                   hdVars, shouldResyncVars, regVars, dueVars, now, delivered>>
    /\ UNCHANGED apiVars

\* defer wg.Wait(): Run returns when sharedProcessor.run has returned.
RunReturn ==
    /\ runPc = "wgWait" /\ procPc = "done"
    /\ runPc' = "returned"
    /\ UNCHANGED <<informerVars, stopCh, processorStopCh, processorVars, resyncVars,
                   chanVars, pumpVars, goVars, hdVars, shouldResyncVars, regVars, dueVars, now,
                   delivered>>
    /\ UNCHANGED apiVars

\* ------------------------------------------------------ AddIndexers(names)
\* The Indexer's own AddIndexers: it refuses names it already has.
IndexerAddIndexers(names) ==
    IF names \cap indexers # {}
    THEN /\ addIndexersErr' = [arg |-> names, err |-> "conflict"]
         /\ UNCHANGED indexers
    ELSE /\ addIndexersErr' = [arg |-> names, err |-> "nil"]
         /\ indexers' = indexers \cup names

\* Faulty variant: an AddIndexers that does not look at started.
AddIndexersUnchecked(names) ==
    /\ startedLock = "free"
    /\ IndexerAddIndexers(names)
    /\ UNCHANGED <<informerVars, lifecycleVars, processorVars, resyncVars, chanVars,
                   pumpVars, goVars, hdVars, shouldResyncVars, regVars, dueVars, now,
                   delivered, refused, hdErr, pumpStarts, waitVars, panicked, pausedFor>>

\* sharedIndexInformer.AddIndexers, under startedLock.
AddIndexers(names) ==
    /\ startedLock = "free"
    /\ IF started
       THEN /\ addIndexersErr' = [arg |-> names, err |-> "started"]
            /\ UNCHANGED indexers
       ELSE IndexerAddIndexers(names)
    /\ UNCHANGED <<informerVars, lifecycleVars, processorVars, resyncVars, chanVars,
                   pumpVars, goVars, hdVars, shouldResyncVars, regVars, dueVars, now,
                   delivered, refused, hdErr, pumpStarts, waitVars, panicked, pausedFor>>

\* ------------------------------------- AddEventHandlerWithResyncPeriod(r)
\* Faulty variant: a registration that does not look at stopped.
RefusesHandlersNever == FALSE

\* if s.stopped: the handler is not added.
RefusesHandlers == stopped

\* Up to the creation of the listener; before start, to the end.
AddEventHandlerWithResyncPeriod(r) ==
    /\ regPc = "idle" /\ startedLock = "free"
    /\ IF RefusesHandlers
       THEN UNCHANGED <<informerVars, lifecycleVars, processorVars, resyncVars,
                        chanVars, pumpVars, goVars, hdVars, shouldResyncVars, regVars,
                        dueVars, now, delivered, pumpStarts>>
       ELSE /\ Len(listeners) < MaxListeners
            /\ LET id == Len(listeners) + 1
                   r1 == AtLeastMinimum(r)
                   lower == r1 > 0 /\ r1 < resyncCheckPeriod
                   requested == IF lower /\ started THEN resyncCheckPeriod ELSE r1
                   check == IF lower /\ ~started THEN r1 ELSE resyncCheckPeriod
                   effective == determineResyncPeriod(requested, check)
                   others == IF lower /\ ~started
                             THEN resyncCheckPeriodChanged(check) ELSE resyncPeriod
               IN  /\ resyncCheckPeriod' = check
                   /\ askedPeriod' = [askedPeriod EXCEPT ![id] = r]
                   /\ requestedResyncPeriod' = [requestedResyncPeriod EXCEPT ![id] = requested]
                   /\ resyncPeriod' = [others EXCEPT ![id] = effective]
                   /\ \E t \in ClockNow :
                         /\ now' = t
                         /\ nextResync' = [nextResync EXCEPT ![id] = t + effective]
                   /\ IF started
                      THEN /\ regPc' = "blockDeltas"
                           /\ startedLock' = "reg"
                           /\ UNCHANGED <<listeners, syncingListeners, goVars, regAt,
                                          snapshot, resyncCalled, markedDue,
                                          registeredSince, pumpStarts>>
                      ELSE /\ CanLock
                           /\ addListener(id)
                           /\ UNCHANGED <<regPc, startedLock>>
            /\ UNCHANGED <<started, stopped, indexer, blockDeltas, lifecycleVars,
                           listenersStarted, readers, procPc, chanVars, pumpVars, hdVars,
                           shouldResyncVars, regItems, delivered>>
    /\ UNCHANGED <<indexers, addIndexersErr, refused, hdErr, waitVars, panicked, pausedFor>>

\* The same call on a stopped informer, with the record that it was refused.
AddEventHandlerRefused ==
    /\ regPc = "idle" /\ startedLock = "free"
    /\ RefusesHandlers
    /\ refused' = TRUE
    /\ UNCHANGED <<informerVars, lifecycleVars, processorVars, resyncVars, chanVars,
                   pumpVars, goVars, hdVars, shouldResyncVars, regVars, dueVars, now,
                   delivered, indexers, addIndexersErr, hdErr, pumpStarts, waitVars,
                   panicked, pausedFor>>

\* After start: lock blockDeltas, add the listener, list the store.
AddEventHandlerJoin ==
    /\ regPc = "blockDeltas" /\ BlockDeltasFree /\ CanLock
    /\ addListener(Len(listeners) + 1)
    /\ UNCHANGED askedPeriod
    /\ \E items \in Orders(List) :
          /\ regItems' = items
          /\ IF items = <<>>
             THEN regPc' = "idle" /\ startedLock' = "free" /\ UNCHANGED blockDeltas
             ELSE regPc' = "replay" /\ blockDeltas' = "reg" /\ UNCHANGED startedLock
    /\ UNCHANGED <<started, stopped, resyncCheckPeriod, indexer, lifecycleVars,
                   listenersStarted, readers, procPc, resyncVars, chanVars, pumpVars,
                   hdVars, shouldResyncVars, now, delivered>>
    /\ UNCHANGED <<indexers, addIndexersErr, refused, hdErr, waitVars, panicked, pausedFor>>

\* listener.add(addNotification{newObj: item}) for the next listed item; after
\* the last one the deferred unlocks run.
AddEventHandlerReplay ==
    /\ regPc = "replay"
    /\ LET l == listeners[Len(listeners)]
       IN  IF addChClosed[l]
           THEN /\ regPc' = "panic"
                /\ UNCHANGED <<startedLock, blockDeltas, regItems, pumpVars>>
           ELSE /\ PopReady(l)
                /\ PopAccept(l, addNotification(Head(regItems)))
                /\ regItems' = Tail(regItems)
                /\ IF Tail(regItems) = <<>>
                   THEN regPc' = "idle" /\ startedLock' = "free" /\ blockDeltas' = "free"
                   ELSE UNCHANGED <<regPc, startedLock, blockDeltas>>
    /\ UNCHANGED <<started, stopped, resyncCheckPeriod, indexer, lifecycleVars,
                   processorVars, resyncVars, chanVars, goVars, hdVars, shouldResyncVars,
                   regAt, snapshot, dueVars, now, delivered>>
    /\ UNCHANGED apiVars

\* ------------------------------------------------------ WaitForCacheSync
\* Faulty variant: a condition that does not look at what syncFunc returned.
SyncFuncFailedNever(v) == FALSE

\* if !syncFunc(): the condition returns false, nil.
SyncFuncFailed(v) == ~v

\* WaitForCacheSync(stopCh, cacheSyncs...) with n sync functions calls
\* wait.PollUntil.
WaitForCacheSync(n) ==
    /\ wfcPc = "idle"
    /\ wfcPc' = "wait"
    /\ wfcFns' = n
    /\ UNCHANGED <<polled, wfcResult, synced, waitStop>>
    /\ UNCHANGED <<informerVars, lifecycleVars, processorVars, resyncVars, chanVars,
                   pumpVars, goVars, hdVars, shouldResyncVars, regVars, dueVars, now,
                   delivered, indexers, addIndexersErr, refused, hdErr, pumpStarts,
                   panicked, pausedFor>>

\* PollUntil's period has passed: the condition is called.
PollTick ==
    /\ wfcPc = "wait"
    /\ wfcPc' = "poll"
    /\ polled' = <<>>
    /\ UNCHANGED <<wfcFns, wfcResult, synced, waitStop>>
    /\ UNCHANGED <<informerVars, lifecycleVars, processorVars, resyncVars, chanVars,
                   pumpVars, goVars, hdVars, shouldResyncVars, regVars, dueVars, now,
                   delivered, indexers, addIndexersErr, refused, hdErr, pumpStarts,
                   panicked, pausedFor>>

\* One turn of the condition's loop over cacheSyncs: the next sync function
\* is called, and a false result ends the poll.  After the last one the
\* condition returns true, PollUntil returns nil and WaitForCacheSync true.
PollSyncFunc ==
    /\ wfcPc = "poll"
    /\ IF Len(polled) = wfcFns
       THEN /\ wfcResult' = "true"
            /\ wfcPc' = "returned"
            /\ UNCHANGED polled
       ELSE LET v == synced[Len(polled) + 1]
            IN  /\ polled' = Append(polled, v)
                /\ wfcPc' = IF SyncFuncFailed(v) THEN "wait" ELSE "poll"
                /\ UNCHANGED wfcResult
    /\ UNCHANGED <<wfcFns, synced, waitStop>>
    /\ UNCHANGED <<informerVars, lifecycleVars, processorVars, resyncVars, chanVars,
                   pumpVars, goVars, hdVars, shouldResyncVars, regVars, dueVars, now,
                   delivered, indexers, addIndexersErr, refused, hdErr, pumpStarts,
                   panicked, pausedFor>>

\* PollUntil finds stopCh closed and returns an error: WaitForCacheSync
\* returns false.
PollStopped ==
    /\ wfcPc = "wait" /\ waitStop
    /\ wfcResult' = "false"
    /\ wfcPc' = "returned"
    /\ UNCHANGED <<wfcFns, polled, synced, waitStop>>
    /\ UNCHANGED <<informerVars, lifecycleVars, processorVars, resyncVars, chanVars,
                   pumpVars, goVars, hdVars, shouldResyncVars, regVars, dueVars, now,
                   delivered, indexers, addIndexersErr, refused, hdErr, pumpStarts,
                   panicked, pausedFor>>

\* The caller closes the stop channel it gave to WaitForCacheSync.
CloseWaitStop ==
    /\ ~waitStop
    /\ waitStop' = TRUE
    /\ UNCHANGED <<wfcPc, wfcFns, polled, wfcResult, synced>>
    /\ UNCHANGED <<informerVars, lifecycleVars, processorVars, resyncVars, chanVars,
                   pumpVars, goVars, hdVars, shouldResyncVars, regVars, dueVars, now,
                   delivered, indexers, addIndexersErr, refused, hdErr, pumpStarts,
                   panicked, pausedFor>>

\* What sync function i returns changes (an InformerSynced is any func() bool).
SyncFuncChanges(i) ==
    /\ synced' = [synced EXCEPT ![i] = ~@]
    /\ UNCHANGED <<wfcPc, wfcFns, polled, wfcResult, waitStop>>
    /\ UNCHANGED <<informerVars, lifecycleVars, processorVars, resyncVars, chanVars,
                   pumpVars, goVars, hdVars, shouldResyncVars, regVars, dueVars, now,
                   delivered, indexers, addIndexersErr, refused, hdErr, pumpStarts,
                   panicked, pausedFor>>

\* ----------------------------------------------------------- HandleDeltas
\* The batches the delta queue hands over: deltas of one object, oldest first.
Batches(T) == UNION {[1..n -> T] : n \in 1..MaxBatch}

\* Faulty variant: a HandleDeltas that never looks the object up and publishes
\* every Sync, Added or Updated delta as an Add.
NotificationForNoLookup(d) ==
    IF d.type = "Deleted" THEN deleteNotification(Obj(d.key, d.rv))
    ELSE addNotification(Obj(d.key, d.rv))

\* The notification HandleDeltas publishes for delta d.
NotificationFor(d) ==
    IF d.type = "Deleted" THEN deleteNotification(Obj(d.key, d.rv))
    ELSE IF indexer[d.key] # 0
         THEN updateNotification(Obj(d.key, indexer[d.key]), Obj(d.key, d.rv))
         ELSE addNotification(Obj(d.key, d.rv))

\* Faulty variant: a HandleDeltas that publishes without having changed the
\* store.
StoreAfterNotYet(d) == indexer

\* The store after indexer.Add / Update / Delete of d's object.
StoreAfter(d) ==
    [indexer EXCEPT ![d.key] = IF d.type = "Deleted" THEN 0 ELSE d.rv]

\* Faulty variant: a distribute that sends Sync notifications to everybody.
DistributeToAll(sync) == listeners

\* distribute(obj, sync): the listeners it sends to.
DistributeTo(sync) == IF sync THEN syncingListeners ELSE listeners

\* The controller pops a batch and calls HandleDeltas, which locks blockDeltas.
HandleDeltasBegin(k, types, max) ==
    /\ runPc = "controller" /\ hdPc = "idle"
    /\ BlockDeltasFree
    /\ Len(deltaLog) + Len(types) <= max
    /\ blockDeltas' = "hd"
    /\ hdBatch' = [i \in 1..Len(types) |->
                     [type |-> types[i], key |-> k, rv |-> Len(deltaLog) + i]]
    /\ hdPc' = "delta"
    /\ UNCHANGED <<started, stopped, resyncCheckPeriod, indexer, startedLock,
                   lifecycleVars, processorVars, resyncVars, chanVars, pumpVars, goVars,
                   distNote, distTargets, deltaLog, shouldResyncVars, regVars, dueVars, now,
                   delivered>>
    /\ hdErr' = NoError
    /\ UNCHANGED <<indexers, addIndexersErr, refused, pumpStarts, waitVars, panicked,
                   pausedFor>>

\* One turn of the loop over the batch, up to the call of distribute: the
\* indexer is changed and the notification built.
HandleDeltasApply ==
    /\ hdPc = "delta" /\ hdBatch # <<>>
    /\ LET d == Head(hdBatch)
       IN  /\ indexer' = StoreAfter(d)
           /\ distNote' = NotificationFor(d)
           /\ deltaLog' = Append(deltaLog,
                  [key |-> d.key, rv |-> d.rv, sync |-> d.type = "Sync"])
    /\ hdPc' = "publish"
    /\ UNCHANGED <<started, stopped, resyncCheckPeriod, startedLock, blockDeltas,
                   lifecycleVars, processorVars, resyncVars, chanVars, pumpVars, goVars,
                   hdBatch, distTargets, shouldResyncVars, regVars, dueVars, now,
                   delivered>>
    /\ UNCHANGED apiVars

\* distribute(obj, sync) takes the read lock and starts its loop (and returns
\* at once if it has nobody to send to).
Distribute ==
    /\ hdPc = "publish"
    /\ CanRLock
    /\ LET targets == DistributeTo(Head(hdBatch).type = "Sync")
       IN  IF targets = <<>>
           THEN /\ hdPc' = "delta"
                /\ hdBatch' = Tail(hdBatch)
                /\ distNote' = Nil
                /\ UNCHANGED <<distTargets, readers>>
           ELSE /\ hdPc' = "distribute"
                /\ distTargets' = targets
                /\ readers' = readers \cup {"hd"}
                /\ UNCHANGED <<hdBatch, distNote>>
    /\ UNCHANGED <<informerVars, lifecycleVars, listeners, syncingListeners,
                   listenersStarted, procPc, resyncVars, chanVars, pumpVars, goVars,
                   deltaLog, shouldResyncVars, regVars, dueVars, now, delivered>>
    /\ UNCHANGED apiVars

\* listener.add(obj) for the next listener of distribute's loop; after the
\* last one the read lock is released.
DistributeAdd ==
    /\ hdPc = "distribute"
    /\ LET l == Head(distTargets)
       IN  IF addChClosed[l]
           THEN /\ hdPc' = "panic"
                /\ UNCHANGED <<hdBatch, distNote, distTargets, readers, pumpVars>>
           ELSE /\ PopReady(l)
                /\ PopAccept(l, distNote)
                /\ distTargets' = Tail(distTargets)
                /\ IF Tail(distTargets) = <<>>
                   THEN /\ hdPc' = "delta"
                        /\ hdBatch' = Tail(hdBatch)
                        /\ distNote' = Nil
                        /\ readers' = readers \ {"hd"}
                   ELSE UNCHANGED <<hdPc, hdBatch, distNote, readers>>
    /\ UNCHANGED <<informerVars, lifecycleVars, listeners, syncingListeners,
                   listenersStarted, procPc, resyncVars, chanVars, goVars, deltaLog,
                   shouldResyncVars, regVars, dueVars, now, delivered>>
    /\ UNCHANGED apiVars

\* Faulty variant: a loop that goes on with the next delta after an error.
RemainingAfterErrorSkipsOne(batch) == Tail(batch)

\* What is left of the batch for HandleDeltas' loop after an indexer error:
\* nothing, 'return err' leaves the loop.
RemainingAfterError(batch) == <<>>

\* The indexer call HandleDeltas makes for delta d.
IndexerOp(d) ==
    IF d.type = "Deleted" THEN "Delete"
    ELSE IF indexer[d.key] # 0 THEN "Update" ELSE "Add"

\* One turn of the loop in which indexer.Add, Update or Delete returns an
\* error (and leaves the store as it was): HandleDeltas returns it, and its
\* deferred Unlock releases blockDeltas.
HandleDeltasFail ==
    /\ hdPc = "delta" /\ hdBatch # <<>>
    /\ hdErr' = [op |-> IndexerOp(Head(hdBatch)), failed |-> <<Head(hdBatch)>>,
                 dropped |-> Tail(hdBatch)]
    /\ hdBatch' = RemainingAfterError(hdBatch)
    /\ IF RemainingAfterError(hdBatch) = <<>>
       THEN hdPc' = "idle" /\ blockDeltas' = "free"
       ELSE UNCHANGED <<hdPc, blockDeltas>>
    /\ UNCHANGED <<started, stopped, resyncCheckPeriod, indexer, startedLock,
                   lifecycleVars, processorVars, resyncVars, chanVars, pumpVars, goVars,
                   distNote, distTargets, deltaLog, shouldResyncVars, regVars, dueVars, now,
                   delivered>>
    /\ UNCHANGED <<indexers, addIndexersErr, refused, pumpStarts, waitVars, panicked,
                   pausedFor>>

\* HandleDeltas returns nil and unlocks blockDeltas.
HandleDeltasReturn ==
    /\ hdPc = "delta" /\ hdBatch = <<>>
    /\ hdPc' = "idle"
    /\ blockDeltas' = "free"
    /\ UNCHANGED <<started, stopped, resyncCheckPeriod, indexer, startedLock,
                   lifecycleVars, processorVars, resyncVars, chanVars, pumpVars, goVars,
                   hdBatch, distNote, distTargets, deltaLog, shouldResyncVars, regVars,
                   dueVars, now, delivered>>
    /\ hdErr' = NoError
    /\ UNCHANGED <<indexers, addIndexersErr, refused, pumpStarts, waitVars, panicked,
                   pausedFor>>

\* ------------------------------------------------------- specifications
Run == ControllerReturn \/ RunSetStopped \/ RunReturn

ProcessorRun == ProcessorRunStart \/ ProcessorRunClose \/ ProcessorRunDone

Pop(l) == PopForward(l) \/ PopExit(l)

Next ==
    \/ RunStart
    \/ CloseStopCh
    \/ ControllerReturn
    \/ RunSetStopped
    \/ RunReturn
    \/ ProcessorRunStart
    \/ ProcessorRunClose
    \/ ProcessorRunDone
    \/ ShouldResyncCall
    \/ ShouldResync
    \/ \E r \in RequestedPeriods : AddEventHandlerWithResyncPeriod(r)
    \/ AddEventHandlerJoin
    \/ AddEventHandlerReplay
    \/ \E k \in Keys, types \in Batches(DeltaTypes) : HandleDeltasBegin(k, types, MaxDeltas)
    \/ HandleDeltasApply
    \/ Distribute
    \/ DistributeAdd
    \/ HandleDeltasReturn
    \/ \E l \in Listeners : PopForward(l)
    \/ \E l \in Listeners : PopExit(l)
    \/ \E l \in Listeners : HandlerReturn(l)
    \/ \E l \in Listeners : ListenerRunExit(l)

Spec == Init /\ [][Next]_vars

\* Every goroutine that can take a step eventually takes one; a select with
\* several ready cases takes any of them. A goroutine blocked in RLock or Lock
\* gets the lock if it is free again and again (Unlock wakes the blocked
\* readers, and a blocked Lock keeps new readers out), hence the strong
\* fairness of the steps that take a lock other goroutines keep taking.
\* Nothing obliges the callers of Run, of AddEventHandlerWithResyncPeriod and
\* of close(stopCh), the delta queue or the resync timer to act.
Fairness ==
    /\ WF_vars(Run)
    /\ SF_vars(ProcessorRunStart)
    /\ SF_vars(ProcessorRunClose)
    /\ WF_vars(ProcessorRunDone)
    /\ WF_vars(HandleDeltasApply \/ DistributeAdd \/ HandleDeltasReturn)
    /\ SF_vars(Distribute)
    /\ WF_vars(ShouldResync)
    /\ SF_vars(AddEventHandlerJoin)
    /\ WF_vars(AddEventHandlerReplay)
    /\ \A l \in Listeners : WF_vars(Pop(l))
    /\ \A l \in Listeners : WF_vars(ListenerRunExit(l))

\* Handlers that always return.
FairSpec == Spec /\ Fairness /\ \A l \in Listeners : WF_vars(HandlerReturn(l))

\* Handlers that may never return.
StallSpec == Spec /\ Fairness

\* The listener pipeline alone: an informer without resync (its default
\* period is 0, so the resync timer never fires) that is fed Added deltas.
PumpInit == NewSharedIndexInformer({0})

PumpNext ==
    \/ RunStart
    \/ CloseStopCh
    \/ ControllerReturn
    \/ RunSetStopped
    \/ RunReturn
    \/ ProcessorRunStart
    \/ ProcessorRunClose
    \/ ProcessorRunDone
    \/ AddEventHandlerWithResyncPeriod(0)
    \/ AddEventHandlerJoin
    \/ AddEventHandlerReplay
    \/ \E k \in Keys, types \in Batches({"Added"}) : HandleDeltasBegin(k, types, MaxPumpDeltas)
    \/ HandleDeltasApply
    \/ Distribute
    \/ DistributeAdd
    \/ HandleDeltasReturn
    \/ \E l \in Listeners : PopForward(l)
    \/ \E l \in Listeners : PopExit(l)
    \/ \E l \in Listeners : HandlerReturn(l)
    \/ \E l \in Listeners : ListenerRunExit(l)

PumpSpec == PumpInit /\ [][PumpNext]_vars

\* The pipeline with handlers that may never return.
PumpStallSpec == PumpSpec /\ Fairness

\* The pipeline with handlers that return.
PumpFairSpec == PumpSpec /\ Fairness /\ \A l \in Listeners : WF_vars(HandlerReturn(l))

\* The registration and resync-period part of the informer alone, over a wide
\* choice of default and requested periods.
ResyncInit == NewSharedIndexInformer(WideDefaultPeriods)

ResyncNext ==
    \/ RunStart
    \/ CloseStopCh
    \/ ControllerReturn
    \/ RunSetStopped
    \/ \E r \in WideRequestedPeriods : AddEventHandlerWithResyncPeriod(r)
    \/ AddEventHandlerJoin
    \/ ShouldResyncCall
    \/ ShouldResync

ResyncSpec == ResyncInit /\ [][ResyncNext]_vars

\* HandleDeltas and the listeners it publishes to, without resync and without
\* stop: deltas of every type, up to MaxPumpDeltas of them.
DeltaNext ==
    \/ RunStart
    \/ ProcessorRunStart
    \/ AddEventHandlerWithResyncPeriod(0)
    \/ AddEventHandlerJoin
    \/ AddEventHandlerReplay
    \/ \E k \in Keys, types \in Batches(DeltaTypes) : HandleDeltasBegin(k, types, MaxPumpDeltas)
    \/ HandleDeltasApply
    \/ Distribute
    \/ DistributeAdd
    \/ HandleDeltasReturn
    \/ \E l \in Listeners : PopForward(l)
    \/ \E l \in Listeners : HandlerReturn(l)

DeltaSpec == PumpInit /\ [][DeltaNext]_vars

\* HandleDeltas over an indexer whose Add, Update and Delete may fail.
FailNext ==
    \/ RunStart
    \/ ProcessorRunStart
    \/ AddEventHandlerWithResyncPeriod(0)
    \/ AddEventHandlerJoin
    \/ AddEventHandlerReplay
    \/ \E k \in Keys, types \in Batches(DeltaTypes) : HandleDeltasBegin(k, types, MaxDeltas)
    \/ HandleDeltasApply
    \/ HandleDeltasFail
    \/ Distribute
    \/ DistributeAdd
    \/ HandleDeltasReturn
    \/ \E l \in Listeners : PopForward(l)
    \/ \E l \in Listeners : HandlerReturn(l)

FailSpec == PumpInit /\ [][FailNext]_vars

\* WaitForCacheSync alone, over sync functions that change at will.
WaitNext ==
    \/ \E n \in 0..MaxSyncFns : WaitForCacheSync(n)
    \/ PollTick
    \/ PollSyncFunc
    \/ PollStopped
    \/ CloseWaitStop
    \/ \E i \in SyncFns : SyncFuncChanges(i)

WaitSpec == Init /\ [][WaitNext]_vars

\* PollUntil's timer keeps ticking and the condition keeps running.
WaitFairSpec == WaitSpec /\ WF_vars(PollTick) /\ WF_vars(PollSyncFunc) /\ WF_vars(PollStopped)

\* The listener pipeline with handlers that may panic; nothing runs once a
\* panic has ended the process.
PanicNext ==
    \/ ~Crashed /\ PumpNext
    \/ ~Crashed /\ \E l \in Listeners : HandlerPanic(l)

PanicSpec == PumpInit /\ [][PanicNext]_vars

\* The registration and resync-period part, with requested periods of either
\* sign.
SignedNext ==
    \/ RunStart
    \/ CloseStopCh
    \/ ControllerReturn
    \/ RunSetStopped
    \/ \E r \in SignedRequestedPeriods : AddEventHandlerWithResyncPeriod(r)
    \/ AddEventHandlerJoin
    \/ ShouldResyncCall
    \/ ShouldResync

SignedSpec == ResyncInit /\ [][SignedNext]_vars

\* The informer with the record of the registrations it refused.
StopNext == Next \/ AddEventHandlerRefused

StopSpec == Init /\ [][StopNext]_vars

\* The informer's store and its indexers alone: AddIndexers before and after
\* the start, and the batches that fill the store.
IndexNext ==
    \/ RunStart
    \/ CloseStopCh
    \/ ControllerReturn
    \/ RunSetStopped
    \/ \E names \in (SUBSET IndexNames) \ {{}} : AddIndexers(names)
    \/ \E k \in Keys, types \in Batches(DeltaTypes) : HandleDeltasBegin(k, types, MaxDeltas)
    \/ HandleDeltasApply
    \/ Distribute
    \/ HandleDeltasReturn

IndexSpec == Init /\ [][IndexNext]_vars

\* ===================================================================== properties
IsPrefix(s, t) == Len(s) <= Len(t) /\ SubSeq(t, 1, Len(s)) = s

\* What a listener's pop holds for nextCh: nothing, or the one notification.
Current(l) == IF notification[l] = Nil THEN <<>> ELSE <<notification[l]>>

\* The most notifications one listener can accept in a behaviour of the pipeline.
MaxAccepted == MaxPumpDeltas + NumKeys

\* C1: for one listener, the handler is invoked with the notifications in the
\* order in which add() handed them to pop: any two notifications delivered
\* one after the other were accepted in that order.
C1_HandlerOrderIsAcceptOrder ==
    \A l \in Listeners :
        \A i, j \in DOMAIN delivered[l] :
            i < j => \E a, b \in DOMAIN accepted[l] :
                        /\ a < b
                        /\ accepted[l][a] = delivered[l][i]
                        /\ accepted[l][b] = delivered[l][j]

\* A listener whose handler has been invoked with three notifications, all it accepted.
C1_Witness ==
    \E l \in Listeners : Len(delivered[l]) >= 3 /\ delivered[l] = accepted[l]

\* While addCh is open, what add() accepted is exactly what the handler got,
\* then the notification pop holds, then the pending buffer.
C2_Conservation ==
    \A l \in Listeners :
        ~addChClosed[l] =>
            accepted[l] = delivered[l] \o Current(l) \o pendingNotifications[l]

\* C2: while addCh is open nothing accepted by add() is dropped or duplicated
\* (delivered, then held, then pending, is what was accepted), and with a
\* handler that returns every accepted notification reaches the handler
\* unless addCh is closed first.
C2_NoDropNoDuplicate ==
    /\ []C2_Conservation
    /\ \A l \in Listeners : \A n \in 1..MaxAccepted :
           (Len(accepted[l]) >= n) ~> (Len(delivered[l]) >= n \/ addChClosed[l])

\* A listener with an open addCh that has delivered, holds and buffers at once.
C2_Witness ==
    \E l \in Listeners :
        /\ ~addChClosed[l]
        /\ delivered[l] # <<>>
        /\ notification[l] # Nil
        /\ pendingNotifications[l] # <<>>

\* Some sender is blocked in add() on listener l.
Sending(l) ==
    \/ hdPc = "distribute" /\ distTargets # <<>> /\ Head(distTargets) = l
    \/ regPc = "replay" /\ listeners[Len(listeners)] = l

\* C7: whatever the handlers do (any of them may never return), a send to a
\* listener whose pop is running is accepted, so a HandleDeltas batch in
\* progress completes; and a listener whose own handler keeps returning is
\* handed everything it accepted, unless its addCh is closed first.
C7_StalledHandlerBlocksNobody ==
    /\ \A l \in Listeners : \A n \in 0..MaxAccepted :
           (Sending(l) /\ popPc[l] = "select" /\ Len(accepted[l]) = n)
               ~> (Len(accepted[l]) > n \/ addChClosed[l])
    /\ (hdPc # "idle") ~> (hdPc = "idle")
    /\ \A m \in Listeners :
           ([]<>(lrunPc[m] # "handling")) =>
               \A n \in 1..MaxAccepted :
                   (Len(accepted[m]) >= n) ~> (Len(delivered[m]) >= n \/ addChClosed[m])

\* One handler is still in its first invocation with notifications piled up
\* behind it, the batches are done, and another listener has received three.
C7_Witness ==
    \E l, m \in Listeners :
        /\ l # m
        /\ lrunPc[l] = "handling" /\ Len(delivered[l]) = 1
        /\ pendingNotifications[l] # <<>>
        /\ hdPc = "idle"
        /\ Len(delivered[m]) >= 3

\* The notification is about a delta that HandleDeltas applied.
Applied(n) ==
    \E p \in DOMAIN deltaLog :
        deltaLog[p].rv = Subject(n).rv /\ deltaLog[p].key = Subject(n).key

\* The place in the order of application of the delta a notification is about.
LogPos(n) == CHOOSE p \in DOMAIN deltaLog : deltaLog[p].rv = Subject(n).rv

\* C4: for each listener and each object key, the notifications the handler
\* was invoked with are about deltas that HandleDeltas applied, each at most
\* once and in the order of application (a subsequence of that key's deltas).
C4_PerKeyOrder ==
    \A l \in Listeners : \A i, j \in DOMAIN delivered[l] :
        /\ Applied(delivered[l][i])
        /\ (i < j /\ Subject(delivered[l][i]).key = Subject(delivered[l][j]).key)
              => LogPos(delivered[l][i]) < LogPos(delivered[l][j])

\* After a shouldResync call, a handler has been invoked twice for one key.
C4_Witness ==
    \E l \in Listeners :
        /\ resyncCalled
        /\ Len(delivered[l]) >= 2
        /\ Subject(delivered[l][1]).key = Subject(delivered[l][2]).key

\* The listener whose registration is still replaying the store to it.
InReplay(l) ==
    regPc \in {"replay", "panic"} /\ listeners # <<>> /\ l = listeners[Len(listeners)]

\* The Add notifications owed to l for the store as it was when l joined.
ReplayOwed(l) == {addNotification(o) : o \in snapshot[l]}

\* The deltas (by place in deltaLog) behind what l accepted after its replay.
LiveRvs(l) ==
    [i \in 1..(Len(accepted[l]) - Cardinality(snapshot[l])) |->
        Subject(accepted[l][Cardinality(snapshot[l]) + i]).rv]

\* The non-Sync deltas applied after l joined, up to place upto.
LiveOwed(l, upto) ==
    SelectSeq([i \in 1..(upto - regAt[l]) |-> regAt[l] + i],
              LAMBDA p : ~deltaLog[p].sync)

\* The deltas whose distribution is over.
Distributed ==
    IF hdPc \in {"publish", "distribute", "panic"} THEN Len(deltaLog) - 1 ELSE Len(deltaLog)

SyncSendTo(l) ==
    /\ hdPc = "distribute"
    /\ deltaLog[Len(deltaLog)].sync
    /\ accepted'[l] # accepted[l]

\* C6 as stated: once shouldResync has been called, a Sync notification is
\* enqueued only to listeners that the most recent call marked due.
C6_OnlyMarkedDue ==
    [][\A l \in Listeners : (SyncSendTo(l) /\ resyncCalled) => l \in markedDue]_vars

\* C6, as the code has it: a Sync notification is enqueued only to listeners
\* that the most recent shouldResync call marked due or that were registered
\* since that call (before the first call, since the construction).
C6_MarkedDueOrRegisteredSince ==
    [][\A l \in Listeners : SyncSendTo(l) => l \in markedDue \cup registeredSince]_vars

\* The distribution of a Sync delta is over: a listener marked due accepted
\* its notification, and a listener that was registered before the call and
\* not marked due did not.
C6_Witness ==
    /\ resyncCalled
    /\ hdPc \in {"idle", "delta"}
    /\ deltaLog # <<>> /\ deltaLog[Len(deltaLog)].sync
    /\ \E l \in markedDue : \E i \in DOMAIN accepted[l] :
           Subject(accepted[l][i]).rv = Len(deltaLog)
    /\ \E m \in Range(listeners) \ (markedDue \cup registeredSince) :
           \A i \in DOMAIN accepted[m] : Subject(accepted[m][i]).rv # Len(deltaLog)

\* Listener l's pumps run and hold nothing.
PumpIdle(l) ==
    /\ popPc[l] = "select" /\ lrunPc[l] = "recv"
    /\ notification[l] = Nil /\ pendingNotifications[l] = <<>>

\* C3, where nothing is on its way any more: with the informer not stopped,
\* no batch and no registration in progress and a listener's pumps idle and
\* empty, the listener's handler has been invoked for every delta applied
\* since the listener was registered, Sync deltas included.
C3_EveryUpdateNotified ==
    \A l \in Range(listeners) :
        (~stopCh /\ hdPc = "idle" /\ regPc = "idle" /\ PumpIdle(l)) =>
            \A p \in (regAt[l] + 1)..Len(deltaLog) :
                \E i \in DOMAIN delivered[l] : Subject(delivered[l][i]).rv = p

\* The same for the deltas that are not Sync deltas.
EveryChangeNotified ==
    \A l \in Range(listeners) :
        (~stopCh /\ hdPc = "idle" /\ regPc = "idle" /\ PumpIdle(l)) =>
            \A p \in (regAt[l] + 1)..Len(deltaLog) :
                ~deltaLog[p].sync =>
                    \E i \in DOMAIN delivered[l] : Subject(delivered[l][i]).rv = p

\* C8: once stopCh is closed, Run returns, and by then every pop and run
\* goroutine that was started has returned.
C8_StopLeadsToReturn ==
    stopCh ~> (/\ runPc = "returned"
               /\ \A l \in Listeners : /\ popPc[l] \in {"none", "exited"}
                                        /\ lrunPc[l] \in {"none", "exited"})

\* No send on a closed addCh.
NoPanic == hdPc # "panic" /\ regPc # "panic"

\* This step adds listener id to the processor: its registration is done
\* but for the replay of the store.
Registers(id) == Len(listeners') = Len(listeners) + 1 /\ id = Len(listeners')

\* The table of effective periods: requested r under check period c.
CoercionTable(r, c) ==
    IF r = 0 THEN 0
    ELSE IF c = 0 THEN 0
    ELSE IF r < c THEN c
    ELSE r

\* A positive request below the minimum counts as the minimum.
RaisedToMinimum(r) ==
    IF r > 0 /\ r < minimumResyncPeriod THEN minimumResyncPeriod ELSE r

\* C10 as stated: the new listener's resyncPeriod is the table's value for
\* the period r the caller asked for and the resyncCheckPeriod then in force.
C10_CoercionOfRequested ==
    [][\A id \in Listeners :
          Registers(id) =>
              resyncPeriod'[id] = CoercionTable(askedPeriod'[id], resyncCheckPeriod')]_vars

\* C10, as the code has it: the table applies to the requested period after
\* a positive request below minimumResyncPeriod has been raised to it.
C10_CoercionOfRaised ==
    [][\A id \in Listeners :
          Registers(id) =>
              resyncPeriod'[id] =
                  CoercionTable(RaisedToMinimum(askedPeriod'[id]), resyncCheckPeriod')]_vars

\* A listener that asked for less than the minimum, and for more than the
\* check period, has been registered and resyncs at the minimum.
C10_Witness ==
    \E id \in Range(listeners) :
        /\ askedPeriod[id] > 0 /\ askedPeriod[id] < minimumResyncPeriod
        /\ resyncCheckPeriod > 0 /\ resyncCheckPeriod < askedPeriod[id]
        /\ resyncPeriod[id] = minimumResyncPeriod

\* C9 as stated: once nextCh is closed, everything add() accepted has been
\* handed to the handler.
C9_DrainedBeforeClose ==
    \A l \in Listeners : nextChClosed[l] => delivered[l] = accepted[l]

\* C9, as the code has it: a pop that has returned has closed nextCh, and
\* what it accepted is what the handler got (a prefix, in order) followed by
\* the notification it held and its pending buffer, which nobody reads any more.
C9_CloseWithoutDrain ==
    \A l \in Listeners :
        popPc[l] = "exited" =>
            /\ nextChClosed[l]
            /\ IsPrefix(delivered[l], accepted[l])
            /\ accepted[l] = delivered[l] \o Current(l) \o pendingNotifications[l]

\* Both pumps of a listener have returned after some deliveries, with
\* accepted notifications left behind.
C9_Witness ==
    \E l \in Listeners :
        /\ popPc[l] = "exited" /\ lrunPc[l] = "exited"
        /\ delivered[l] # <<>>
        /\ delivered[l] # accepted[l]

\* This step is a call of AddEventHandlerWithResyncPeriod on an informer that
\* is not stopped: it creates the listener Len(listeners) + 1.
CallsAddEventHandler ==
    /\ regPc = "idle"
    /\ Len(listeners') > Len(listeners) \/ regPc' = "blockDeltas"

\* The period the caller gave in that call.
AskedNow == askedPeriod'[Len(listeners) + 1]

\* C11 as stated: a registration before the start with 0 < r < resyncCheckPeriod
\* lowers resyncCheckPeriod to r and gives every listener already registered
\* the period the table yields for its requested period under r; once the
\* informer has started no step changes resyncCheckPeriod.
C11_LoweredToRequested ==
    [][/\ (CallsAddEventHandler /\ ~started
              /\ AskedNow > 0 /\ AskedNow < resyncCheckPeriod) =>
             /\ resyncCheckPeriod' = AskedNow
             /\ \A l \in Range(listeners) :
                   resyncPeriod'[l] = CoercionTable(requestedResyncPeriod[l], AskedNow)
       /\ started => resyncCheckPeriod' = resyncCheckPeriod]_vars

\* C11, as the code has it: the same with the period raised to
\* minimumResyncPeriod when it is positive and below it; a registration that
\* does not lower resyncCheckPeriod leaves it and the other listeners' periods
\* as they are.
C11_LoweredToRaised ==
    [][/\ (CallsAddEventHandler /\ ~started) =>
             IF RaisedToMinimum(AskedNow) > 0 /\ RaisedToMinimum(AskedNow) < resyncCheckPeriod
             THEN /\ resyncCheckPeriod' = RaisedToMinimum(AskedNow)
                  /\ \A l \in Range(listeners) :
                        resyncPeriod'[l] =
                            CoercionTable(requestedResyncPeriod[l], RaisedToMinimum(AskedNow))
             ELSE /\ resyncCheckPeriod' = resyncCheckPeriod
                  /\ \A l \in Range(listeners) : resyncPeriod'[l] = resyncPeriod[l]
       /\ started => resyncCheckPeriod' = resyncCheckPeriod]_vars

\* Before the start, the second registration has lowered resyncCheckPeriod to
\* its period (a value the informer cannot have been built with), below the
\* period of the first listener.
C11_Witness ==
    /\ ~started
    /\ Len(listeners) = 2
    /\ resyncCheckPeriod \notin WideDefaultPeriods
    /\ resyncCheckPeriod = askedPeriod[2]
    /\ resyncPeriod[1] > resyncCheckPeriod

\* The indices, which the indexer derives from its items through its indexers:
\* for each index name the keys the store holds.
Indices == [n \in indexers |-> {k \in Keys : indexer[k] # 0}]

\* C12: once Run has set started, no step changes the indexers, and an
\* AddIndexers call returns an error and leaves the indexers and the indices
\* as they are; before the start the call is the indexer's own AddIndexers,
\* which adds the names and returns nil, or refuses names it already has.
C12_AddIndexersAfterStartFails ==
    [][/\ started => indexers' = indexers
       /\ addIndexersErr' # addIndexersErr =>
             IF started
             THEN /\ addIndexersErr'.err \notin {"nil", "none"}
                  /\ indexers' = indexers
                  /\ Indices' = Indices
             ELSE \/ /\ addIndexersErr'.err = "nil"
                     /\ indexers' = indexers \cup addIndexersErr'.arg
                  \/ /\ addIndexersErr'.err = "conflict"
                     /\ addIndexersErr'.arg \cap indexers # {}
                     /\ indexers' = indexers]_vars

\* After an AddIndexers that succeeded before the start and a batch that
\* filled the store, an AddIndexers of another name has returned the error.
C12_Witness ==
    /\ started
    /\ addIndexersErr.err = "started"
    /\ indexers # {} /\ addIndexersErr.arg \cap indexers = {}
    /\ \E k \in Keys : indexer[k] # 0

\* C13: on a stopped informer no step adds a listener to listeners or
\* syncingListeners, changes resyncCheckPeriod or a listener's resync period,
\* or hands a notification to a pump; and the step of a refused
\* AddEventHandlerWithResyncPeriod changes nothing at all of the informer: no
\* listener, no period, no goroutine, no notification (only the record that
\* it was refused).
C13_NoOpAfterStop ==
    [][/\ stopped =>
             /\ listeners' = listeners /\ syncingListeners' = syncingListeners
             /\ resyncCheckPeriod' = resyncCheckPeriod
             /\ resyncPeriod' = resyncPeriod
             /\ requestedResyncPeriod' = requestedResyncPeriod
             /\ accepted' = accepted
       /\ (refused' /\ ~refused) =>
             /\ stopped
             /\ UNCHANGED <<informerVars, lifecycleVars, processorVars, resyncVars,
                            chanVars, pumpVars, goVars, hdVars, shouldResyncVars,
                            regVars, dueVars, now, delivered>>]_vars

\* A registration was refused on a stopped informer that had room for
\* another listener, while a listener registered earlier is still there.
C13_Witness ==
    /\ refused /\ stopped
    /\ Len(listeners) = 1


\* This step is one turn of HandleDeltas' loop: the next delta is applied.
AppliesDelta == deltaLog' # deltaLog

ReturnsError == hdErr = NoError /\ hdErr' # NoError

\* C15: when indexer.Add, Update or Delete fails for a delta, HandleDeltas
\* returns the error at once: nothing is published for that delta, the store
\* and the listeners are left as they were, and as long as that error is the
\* last return value no later delta is applied or published.  A notification
\* is handed to a listener only while HandleDeltas distributes the delta it
\* applied last, whose mutation is in the store.
C15_ErrorStopsTheBatch ==
    [][/\ ReturnsError =>
             /\ hdBatch # <<>>
             /\ hdErr'.failed = <<Head(hdBatch)>>
             /\ hdErr'.dropped = Tail(hdBatch)
             /\ hdPc' = "idle" /\ hdBatch' = <<>> /\ blockDeltas' = "free"
             /\ indexer' = indexer /\ deltaLog' = deltaLog
             /\ accepted' = accepted /\ delivered' = delivered
             /\ distNote' = Nil /\ distTargets' = distTargets
       /\ (hdErr # NoError /\ hdErr' = hdErr) =>
             /\ hdPc' = "idle"
             /\ indexer' = indexer /\ deltaLog' = deltaLog
             /\ \A l \in Listeners : accepted'[l] # accepted[l] => InReplay(l)
       /\ \A l \in Listeners :
             (accepted'[l] # accepted[l] /\ ~InReplay(l)) =>
                 /\ hdErr = NoError
                 /\ hdPc = "distribute"
                 /\ accepted'[l] = Append(accepted[l], distNote)
                 /\ Subject(distNote).rv = Len(deltaLog)
                 /\ indexer[Subject(distNote).key]
                       = (IF distNote.kind = "delete" THEN 0 ELSE Subject(distNote).rv)]_vars

\* indexer.Update failed for the second delta: the handler has been called
\* for the first delta and for nothing else, and the store holds the first.
C15_Witness ==
    /\ hdErr.op = "Update"
    /\ hdErr.failed[1].rv = 2
    /\ Len(listeners) = 1
    /\ delivered[1] = <<addNotification(Obj(1, 1))>>
    /\ accepted[1] = delivered[1]
    /\ indexer[1] = 1


\* The place in deltaLog of the last delta applied for key k (0: none).
LastFor(k) ==
    LET ps == {p \in DOMAIN deltaLog : deltaLog[p].key = k}
    IN  IF ps = {} THEN 0 ELSE CHOOSE p \in ps : \A q \in ps : q <= p

\* The store holds what delta n is about, or what a later delta for that key
\* made of it.
VisibleInStore(n) ==
    LET k == Subject(n).key
    IN  /\ Applied(n)
        /\ IF LogPos(n) = LastFor(k)
           THEN indexer[k] = (IF n.kind = "delete" THEN 0 ELSE Subject(n).rv)
           ELSE /\ LogPos(n) < LastFor(k)
                /\ indexer[k] \in {0, LastFor(k)}

\* C16: the cache is changed before the change is notified.  Every
\* notification a listener was handed, and so every one its handler was
\* called with, is about a delta that has been applied to the indexer: the
\* indexer holds the state that delta produced, or the state produced by a
\* later delta for the same key.
C16_MutationBeforeNotification ==
    \A l \in Listeners :
        /\ \A i \in DOMAIN accepted[l] : VisibleInStore(accepted[l][i])
        /\ \A i \in DOMAIN delivered[l] : VisibleInStore(delivered[l][i])
        /\ distNote # Nil => VisibleInStore(distNote)

\* A handler has been called with the Update of the delta applied last, while
\* HandleDeltas is still in that batch, and the store holds the new object.
C16_Witness ==
    \E l \in Listeners :
        /\ delivered[l] # <<>>
        /\ hdPc # "idle"
        /\ LET n == delivered[l][Len(delivered[l])]
           IN  /\ n.kind = "update"
               /\ Subject(n).rv = Len(deltaLog)
               /\ indexer[Subject(n).key] = Subject(n).rv


\* C17: each listener's run and pop are started exactly once, by
\* sharedProcessor.run for a listener added before it ran and by addListener
\* for one added after, so a listener has one goroutine calling its handler:
\* a callback begins only when that goroutine is between callbacks, and at
\* most one callback of a listener is in progress.
C17_OneRunOnePop ==
    /\ [](\A l \in Listeners :
             /\ pumpStarts[l] <= 1
             /\ pumpStarts[l] = 1 <=> popPc[l] # "none"
             /\ pumpStarts[l] = 1 <=> lrunPc[l] # "none"
             /\ (listenersStarted /\ l \in Range(listeners)) => pumpStarts[l] = 1
             /\ l \notin Range(listeners) => pumpStarts[l] = 0)
    /\ [][\A l \in Listeners :
             delivered'[l] # delivered[l] =>
                 /\ pumpStarts[l] = 1
                 /\ lrunPc[l] = "recv" /\ lrunPc'[l] = "handling"
                 /\ Len(delivered'[l]) = Len(delivered[l]) + 1]_vars

\* One listener was added before the processor ran and one after; both have
\* their pumps, and both handlers are in a callback.
C17_Witness ==
    /\ Len(listeners) = 2
    /\ regAt[1] = 0 /\ snapshot[2] # {}
    /\ pumpStarts[1] = 1 /\ pumpStarts[2] = 1
    /\ lrunPc[1] = "handling" /\ lrunPc[2] = "handling"


\* Every sync function WaitForCacheSync was given returns true.
AllSynced == \A i \in 1..wfcFns : synced[i]

\* The current poll called every sync function and each returned true.
PollAllTrue == Len(polled) = wfcFns /\ \A i \in DOMAIN polled : polled[i]

\* C18: WaitForCacheSync returns once; it returns true only at the end of a
\* poll in which every sync function was called and returned true, and false
\* only when the stop channel is closed, outside a poll; what a poll records
\* is what the sync functions returned.  If from some moment on all sync
\* functions return true and stop never fires, a started WaitForCacheSync
\* eventually returns true.
C18_WaitForCacheSync ==
    /\ [][/\ wfcResult' # wfcResult =>
                /\ wfcResult = "none"
                /\ wfcResult' = "true" => wfcPc = "poll" /\ PollAllTrue
                /\ wfcResult' = "false" => waitStop /\ wfcPc = "wait"
          /\ (polled' # polled /\ polled' # <<>>) =>
                /\ wfcPc = "poll"
                /\ polled' = Append(polled, synced[Len(polled) + 1])]_vars
    /\ [](wfcResult = "true" => PollAllTrue)
    /\ [](wfcResult = "false" => waitStop)
    /\ (<>(wfcPc # "idle") /\ <>[]AllSynced /\ []~waitStop) => <>(wfcResult = "true")

\* WaitForCacheSync with two sync functions has returned true after one of
\* them had returned false in an earlier poll, and stop has not fired.
C18_Witness ==
    /\ wfcResult = "true" /\ wfcFns = 2 /\ ~waitStop
    /\ polled = <<TRUE, TRUE>>
    /\ ~synced[1]


\* C19 as stated: after a panic of a listener's handler on a notification,
\* that listener's run loop has not terminated on the panic, the notification
\* is not passed to the handler again, and the handler goes on receiving the
\* notifications in the order the listener accepted them.
C19_PanicSkipsAndContinues ==
    \A l \in Listeners : \A i \in panicked[l] :
        /\ lrunPc[l] # "crashed"
        /\ \A j \in DOMAIN delivered[l] : j # i => delivered[l][j] # delivered[l][i]
        /\ IsPrefix(delivered[l], accepted[l])


\* This step is sharedProcessor.shouldResync, from its Lock to its return.
ShouldResyncStep == resyncPc = "waiting" /\ resyncPc' = "idle"

\* C20: a call of sharedProcessor.shouldResync that reads the clock at t sets
\* syncingListeners to exactly the listeners with a non-zero resyncPeriod and
\* nextResync <= t (each once, in the order of listeners), moves nextResync
\* of exactly those to t + resyncPeriod, leaves every other nextResync and
\* all periods as they were, and returns true iff some listener was due; a
\* listener with resyncPeriod 0 is never among them.
C20_ShouldResyncMarksTheDue ==
    [][ShouldResyncStep =>
          LET t == now'
              due == {l \in Range(listeners) : resyncPeriod[l] # 0 /\ t >= nextResync[l]}
          IN  /\ Range(syncingListeners') = due
              /\ Len(syncingListeners') = Cardinality(due)
              /\ \A i, j \in DOMAIN syncingListeners' :
                    i < j => syncingListeners'[i] < syncingListeners'[j]
              /\ \A l \in Listeners :
                    nextResync'[l] = IF l \in due THEN t + resyncPeriod[l] ELSE nextResync[l]
              /\ resyncNeeded' = (due # {})
              /\ \A l \in Range(listeners) :
                    resyncPeriod[l] = 0 => l \notin Range(syncingListeners')
              /\ listeners' = listeners /\ resyncPeriod' = resyncPeriod
              /\ t >= now]_vars

\* shouldResync has returned true with one of two listeners due: the other
\* has period 0 although its nextResync has passed, and the due one's
\* nextResync was moved one period on.
C20_Witness ==
    /\ resyncCalled /\ resyncNeeded /\ resyncPc = "idle"
    /\ Len(listeners) = 2 /\ Len(syncingListeners) = 1
    /\ \E l \in Range(listeners) \ Range(syncingListeners) :
          resyncPeriod[l] = 0 /\ nextResync[l] <= now
    /\ \A l \in Range(syncingListeners) : nextResync[l] = now + resyncPeriod[l]


\* Some listener's addCh has been closed.
SomeAddChClosed == \E l \in Listeners : addChClosed[l]

\* C21: the processor is stopped strictly after the controller.  An addCh is
\* closed only when the controller has returned and stopped has been set, with
\* no HandleDeltas and no registration in progress; so nothing is ever sent
\* on a closed addCh, neither by distribute nor by the replay of a late
\* registration, and no listener is added once the channels have been closed.
C21_ProcessorOutlivesController ==
    /\ [](SomeAddChClosed =>
             /\ stopped /\ processorStopCh
             /\ runPc \in {"wgWait", "returned"}
             /\ hdPc = "idle" /\ regPc = "idle")
    /\ [](hdPc # "panic" /\ regPc # "panic")
    /\ [][/\ addChClosed' # addChClosed =>
                /\ stopped /\ processorStopCh
                /\ \A l \in Listeners : addChClosed'[l] <=> l \in Range(listeners)
          /\ listeners' # listeners => ~SomeAddChClosed /\ ~stopped
          /\ \A l \in Listeners :
                accepted'[l] # accepted[l] => ~addChClosed[l]]_vars

\* The channels of two listeners, one of them registered after deltas had
\* been applied, have been closed after the stop.
C21_Witness ==
    /\ Len(listeners) = 2
    /\ addChClosed[1] /\ addChClosed[2]
    /\ regAt[2] > 0 /\ accepted[2] # <<>>
    /\ stopped


\* C22: while pop is in its loop, the forward case is enabled (its local
\* nextCh is p.nextCh) exactly when pop holds a current notification, and the
\* buffer is non-empty only when it holds one.  An arrival becomes the
\* current notification when there is none, and the forward case is enabled
\* by it; otherwise it is appended to the buffer.  A forward hands over the
\* current notification; the oldest buffered one becomes current, and with an
\* empty buffer there is no current notification and the case is disabled.
C22_PumpInvariant ==
    /\ [](\A l \in Listeners :
             popPc[l] = "select" =>
                 /\ nextCh[l] <=> notification[l] # Nil
                 /\ pendingNotifications[l] # <<>> => notification[l] # Nil)
    /\ [][\A l \in Listeners :
             /\ accepted'[l] # accepted[l] =>
                   LET n == accepted'[l][Len(accepted'[l])]
                   IN  /\ popPc[l] = "select"
                       /\ accepted'[l] = Append(accepted[l], n)
                       /\ IF notification[l] = Nil
                          THEN /\ notification'[l] = n /\ nextCh'[l]
                               /\ pendingNotifications'[l] = pendingNotifications[l]
                          ELSE /\ notification'[l] = notification[l]
                               /\ nextCh'[l] = nextCh[l]
                               /\ pendingNotifications'[l]
                                     = Append(pendingNotifications[l], n)
             /\ delivered'[l] # delivered[l] =>
                   /\ popPc[l] = "select" /\ nextCh[l]
                   /\ delivered'[l] = Append(delivered[l], notification[l])
                   /\ IF pendingNotifications[l] # <<>>
                      THEN /\ notification'[l] = Head(pendingNotifications[l])
                           /\ pendingNotifications'[l] = Tail(pendingNotifications[l])
                           /\ nextCh'[l]
                      ELSE /\ notification'[l] = Nil /\ ~nextCh'[l]
                           /\ pendingNotifications'[l] = <<>>]_vars

\* After a forward, a pop in its loop holds a current notification and a
\* buffered one.
C22_Witness ==
    \E l \in Listeners :
        /\ popPc[l] = "select"
        /\ delivered[l] # <<>>
        /\ notification[l] # Nil /\ nextCh[l]
        /\ pendingNotifications[l] # <<>>


\* C23 as stated: the pause of a listener's run after a panic of its handler,
\* before it attempts the next notification, is within the exponential
\* backoff of the retry configuration (about one second).
C23_PauseWithinBackoff ==
    \A l \in Listeners : pausedFor[l] <= RetryBackoffCap


\* C24 as stated: with handlers that return, no operation waits forever.  A
\* HandleDeltas call, a shouldResync call and a registration that have begun
\* come to their end, and sharedProcessor.run, once spawned, starts the pumps.
C24_NoOperationWaitsForever ==
    /\ (hdPc # "idle") ~> (hdPc = "idle")
    /\ (resyncPc # "idle") ~> (resyncPc = "idle")
    /\ (regPc # "idle") ~> (regPc = "idle")
    /\ (procPc = "start") ~> (procPc # "start")


\* C25 as stated: every listener's effective resyncPeriod is 0 or at least
\* resyncCheckPeriod; when resyncCheckPeriod is positive it is the listener's
\* requestedResyncPeriod, so that no step changes the effective period of a
\* listener already added; and resyncCheckPeriod never increases.
C25_EffectiveIsRequested ==
    /\ [](\A l \in Range(listeners) :
             /\ resyncPeriod[l] = 0 \/ resyncPeriod[l] >= resyncCheckPeriod
             /\ resyncCheckPeriod > 0 => resyncPeriod[l] = requestedResyncPeriod[l])
    /\ [][/\ \A l \in Range(listeners) : resyncPeriod'[l] = resyncPeriod[l]
          /\ resyncCheckPeriod' <= resyncCheckPeriod]_vars

\* C25, as the code has it: the same for the listeners whose requested period
\* is not negative.  A negative requested period is stored as it is, and its
\* effective period is resyncCheckPeriod whenever that is positive: a
\* registration that lowers resyncCheckPeriod lowers that listener's
\* effective period with it.
C25_EffectiveIsRequestedUnlessNegative ==
    /\ [](\A l \in Range(listeners) :
             /\ resyncPeriod[l] = 0 \/ resyncPeriod[l] >= resyncCheckPeriod
             /\ resyncCheckPeriod > 0 =>
                   resyncPeriod[l] = (IF requestedResyncPeriod[l] >= 0
                                      THEN requestedResyncPeriod[l]
                                      ELSE resyncCheckPeriod))
    /\ [][/\ \A l \in Range(listeners) :
                /\ requestedResyncPeriod'[l] = requestedResyncPeriod[l]
                /\ requestedResyncPeriod[l] >= 0 => resyncPeriod'[l] = resyncPeriod[l]
                /\ (requestedResyncPeriod[l] < 0 /\ resyncCheckPeriod > 0) =>
                      resyncPeriod'[l] = resyncCheckPeriod'
          /\ resyncCheckPeriod' <= resyncCheckPeriod]_vars

\* Before the start, a second registration has lowered resyncCheckPeriod, and
\* with it the effective period of the first listener, which had asked for a
\* negative period.
C25_Witness ==
    /\ ~started
    /\ Len(listeners) = 2
    /\ requestedResyncPeriod[1] < 0
    /\ resyncCheckPeriod \notin WideDefaultPeriods
    /\ resyncCheckPeriod = requestedResyncPeriod[2]
    /\ resyncPeriod[1] = resyncCheckPeriod

====
